---------------------------- MODULE Spec2Model ----------------------------
(***************************************************************************)
(* FinSight.API: the transaction and category routes over the document     *)
(* store, and the monthly report built by GET /transaction.                *)
(*                                                                         *)
(* app.js mounts both routers behind requireAuth(): a request without a    *)
(* session is answered by that middleware with a redirect and the handler  *)
(* is not called, so the 401 branch that begins every handler is not       *)
(* reached through the app.                                                *)
(*                                                                         *)
(* Every handler is an async function.  Up to its await a handler runs in  *)
(* one turn of the event loop: it answers at once (401, 400, or 500 when   *)
(* it throws), or it calls the store and is suspended.  The store applies  *)
(* the call, or fails; the handler sends its response in a later turn,     *)
(* and other requests run in between.                                      *)
(*                                                                         *)
(* The repository holds two copies of routes/transaction.js.  Their POST,  *)
(* PUT and DELETE handlers are the same; their GET pipelines differ in the *)
(* $unwind stage and in the $ifNull stage, so each GET is an action of its *)
(* own: GetTransactions (src/unnamed/part_002) and GetTransactionsBackend  *)
(* (src/backend/src/routes/transaction.js).                                *)
(*                                                                         *)
(* Representation.  An ObjectId is a positive integer, one number space    *)
(* per collection; a BSON Date is a number of days since 1970-01-01 (the   *)
(* request dates are date-only, so the time of day is always 00:00 UTC).   *)
(* The fields note, createdAt, updatedAt and the categories' transactions  *)
(* array are carried through the pipeline untouched and are left out.      *)
(***************************************************************************)
EXTENDS Integers, Sequences, FiniteSets, Bags, TLC

VARIABLES transactions, categories, nextTxnId, nextCatId, res, suspended,
          served,
          cache, now, pending, nextReqId, sent, lastStored

\* The two collections, and the ids insertOne gives out next.
storeVars == <<transactions, categories, nextTxnId, nextCatId>>

\* The store; the last response sent by a handler of /transaction or
\* /category; the bag of the responses that the handlers suspended at
\* their await will send when they are resumed; and the number of requests
\* that have arrived.
apiVars == <<storeVars, res, suspended, served>>

\* The state of /inflation: the in-memory cache, the clock (Date.now()),
\* the requests that await fetchInflation, the number of the next request,
\* the last response sent, and for each country the data and the time of
\* the most recent successful fetch that was stored.
inflationVars == <<cache, now, pending, nextReqId, sent, lastStored>>

vars == <<apiVars, inflationVars>>

(* Bounds: how many documents insertOne may create in each collection,  *)
(* how many handlers may be suspended at their await at a time, and how *)
(* many requests arrive: MaxCalls under Spec, MaxShortCalls under        *)
(* SpecShort and SpecWrites.                                            *)
MaxTxn == 2
MaxCat == 1
MaxSuspended == 2
MaxCalls == 4
MaxShortCalls == 3
(* Bounds of /inflation: how many requests arrive, how often time passes. *)
MaxRequests == 3
MaxTicks == 3

(* ------------------------------ values ------------------------------- *)

Users == {"u1", "u2"}
\* getAuth(req) of a request without a session: isAuthenticated = false.
NoUser == "<none>"
Callers == Users \cup {NoUser}

\* JavaScript null / a field that a document does not have.
Null == "<null>"
\* ObjectId-valued fields hold 0 for null.
NullId == 0
\* new ObjectId(s) throws on a string that is not 24 hex digits.
BadObjectId == -1
\* getTime() of an Invalid Date (NaN).
InvalidTime == -1

(* ----------------------------- calendar ------------------------------ *)

\* Days since 1970-01-01 of the proleptic Gregorian date y-m-d.
DaysFromCivil(y, m, d) ==
  LET yy  == IF m <= 2 THEN y - 1 ELSE y
      era == yy \div 400
      yoe == yy - era * 400
      mp  == IF m > 2 THEN m - 3 ELSE m + 9
      doy == (153 * mp + 2) \div 5 + d - 1
      doe == yoe * 365 + yoe \div 4 - yoe \div 100 + doy
  IN  era * 146097 + doe - 719468

\* The calendar date <<year, month, day>> of a day number.
CivilFromDays(z) ==
  LET zz  == z + 719468
      era == zz \div 146097
      doe == zz - era * 146097
      yoe == (doe - doe \div 1460 + doe \div 36524 - doe \div 146096) \div 365
      doy == doe - (365 * yoe + yoe \div 4 - yoe \div 100)
      mp  == (5 * doy + 2) \div 153
      d   == doy - (153 * mp + 2) \div 5 + 1
      m   == IF mp < 10 THEN mp + 3 ELSE mp - 9
      y   == yoe + era * 400
  IN  <<IF m <= 2 THEN y + 1 ELSE y, m, d>>

\* $year and $month of a Date.
YearOf(days) == CivilFromDays(days)[1]
MonthOf(days) == CivilFromDays(days)[2]

\* $dateFromParts {year, month, day: 1}.
DateFromParts(year, month) == DaysFromCivil(year, month, 1)

MonthAbbrev ==
  <<"Jan", "Feb", "Mar", "Apr", "May", "Jun",
    "Jul", "Aug", "Sep", "Oct", "Nov", "Dec">>

\* %Y: the year, zero-padded to four digits.
Pad4(y) ==
  IF y < 10 THEN "000" \o ToString(y)
  ELSE IF y < 100 THEN "00" \o ToString(y)
  ELSE IF y < 1000 THEN "0" \o ToString(y)
  ELSE ToString(y)

\* $dateToString {format: "%b %Y"}.
DateToString(days) ==
  LET civil == CivilFromDays(days)
  IN  MonthAbbrev[civil[2]] \o " " \o Pad4(civil[1])

(* --------------------------- date strings ---------------------------- *)

\* The date texts of the model and the fields an ISO-8601 parser reads
\* from them; every other text is not a date.
IsoDates == {"2023-12-01", "2023-12-15", "2024-01-02"}

IsoFields(s) ==
  CASE s = "2023-12-01" -> <<2023, 12, 1>>
    [] s = "2023-12-15" -> <<2023, 12, 15>>
    [] s = "2024-01-02" -> <<2024, 1, 2>>

\* Date.parse(s) in days; InvalidTime (NaN) when s is no date.
ParseDate(s) ==
  IF s \in IsoDates
    THEN DaysFromCivil(IsoFields(s)[1], IsoFields(s)[2], IsoFields(s)[3])
    ELSE InvalidTime

\* A date value as $toDate reads it.  POST and PUT store a BSON Date
\* (t = "date"); a string operand (t = "string") is parsed by $toDate.
DateVal(days) == [t |-> "date", days |-> days, text |-> ""]

\* new Date(date), as insertOne / $set stores it: the driver writes
\* getTime() as a 64-bit integer and NaN becomes 0, the epoch.
NewDate(s) ==
  LET ms == ParseDate(s)
  IN  DateVal(IF ms = InvalidTime THEN 0 ELSE ms)

(* ------------------------------ the store ---------------------------- *)

\* A document of the transactions collection.
TxnDoc(id, userId, date, type, amount, categoryId) ==
  [_id |-> id, userId |-> userId, date |-> date, type |-> type,
   amount |-> amount, categoryId |-> categoryId]

\* A document of the categories collection.
CatDoc(id, userId, name, icon, type) ==
  [_id |-> id, userId |-> userId, name |-> name, icon |-> icon, type |-> type]

\* The documents of a collection in the order a scan returns them
\* (ascending _id, the order of insertion).
RECURSIVE ScanFrom(_, _)
ScanFrom(coll, id) ==
  IF \A d \in coll : d._id < id THEN <<>>
  ELSE LET here == {d \in coll : d._id = id}
       IN  (IF here = {} THEN <<>> ELSE <<CHOOSE d \in here : TRUE>>)
             \o ScanFrom(coll, id + 1)

Scan(coll) == ScanFrom(coll, 1)

\* Every order in which a read without a sort may return a set of
\* documents: the order is the storage engine's and not defined.
Scans(coll) ==
  {s \in [1..Cardinality(coll) -> coll] :
     \A i \in DOMAIN s : \A j \in DOMAIN s : i # j => s[i] # s[j]}

(* ------------------------ the aggregation stages --------------------- *)

\* Mutant of Match: the filter is left out.
MatchAll(docs, userId) == docs

\* { $match: { userId } }, the first stage: the documents of the collection
\* that the rest of the pipeline is fed, in some order.
Match(docs, userId) == {d \in docs : d.userId = userId}

\* { $lookup: { from: "categories", localField: "categoryId",
\*              foreignField: "_id", as: "category" } }
\* category becomes the array of all categories whose _id equals the
\* transaction's categoryId, whoever owns them.
LookupJoined(cats, categoryId) ==
  SelectSeq(Scan(cats), LAMBDA c : c._id = categoryId)

Lookup(docs, cats) ==
  [i \in 1..Len(docs) |->
     [_id |-> docs[i]._id, userId |-> docs[i].userId, date |-> docs[i].date,
      type |-> docs[i].type, amount |-> docs[i].amount,
      categoryId |-> docs[i].categoryId,
      category |-> LookupJoined(cats, docs[i].categoryId)]]

\* One output document per element of the category array, with category
\* set to that element.
UnwindOne(d) ==
  [j \in 1..Len(d.category) |-> [d EXCEPT !.category = <<d.category[j]>>]]

\* { $unwind: { path: "$category", preserveNullAndEmptyArrays: true } }
\* A document with an empty array is kept, without the category field
\* (written here as the empty sequence).
RECURSIVE UnwindPreserve(_)
UnwindPreserve(docs) ==
  IF docs = <<>> THEN <<>>
  ELSE (IF Head(docs).category = <<>> THEN <<Head(docs)>>
        ELSE UnwindOne(Head(docs))) \o UnwindPreserve(Tail(docs))

\* { $unwind: "$category" }: a document with an empty array is dropped.
RECURSIVE UnwindDrop(_)
UnwindDrop(docs) ==
  IF docs = <<>> THEN <<>>
  ELSE UnwindOne(Head(docs)) \o UnwindDrop(Tail(docs))

\* The fallback object of the $ifNull stage.
FallbackCategory(type) ==
  [_id |-> NullId, userId |-> Null, name |-> "Uncategorized",
   icon |-> Null, type |-> type]

\* { $addFields: { category: { $ifNull: ["$category", fallback] } } }
IfNullCategory(docs) ==
  [i \in 1..Len(docs) |->
     [docs[i] EXCEPT !.category =
        IF docs[i].category = <<>>
          THEN FallbackCategory(docs[i].type)
          ELSE docs[i].category[1]]]

\* The backend copy has no $ifNull stage: after its $unwind every document
\* has a category, which is taken out of the one-element form used above.
PlainCategory(docs) ==
  [i \in 1..Len(docs) |-> [docs[i] EXCEPT !.category = docs[i].category[1]]]

\* $toDate fails (and with it the whole aggregate) on a string that is no
\* date.
ToDateFails(v) == v.t = "string" /\ ParseDate(v.text) = InvalidTime

\* $toDate: a Date is itself, a string is parsed.
ToDate(v) == IF v.t = "string" THEN DateVal(ParseDate(v.text)) ELSE v

\* { $addFields: { date: { $toDate: "$date" } } }
AddDate(docs) ==
  [i \in 1..Len(docs) |-> [docs[i] EXCEPT !.date = ToDate(docs[i].date)]]

AddDateFails(docs) == \E i \in 1..Len(docs) : ToDateFails(docs[i].date)

\* Mutant of SortBefore: the tie-break is ascending (_id: 1).
SortBeforeAscendingId(a, b) ==
  \/ a.date.days > b.date.days
  \/ a.date.days = b.date.days /\ a._id < b._id

\* Mutant of SortBefore: the sort is by date only ({ $sort: { date: -1 } }),
\* documents of one date stay in the order they came in.
SortBeforeDateOnly(a, b) == a.date.days > b.date.days

\* The order of { $sort: { date: -1, _id: -1 } }: a comes before b.
SortBefore(a, b) ==
  \/ a.date.days > b.date.days
  \/ a.date.days = b.date.days /\ a._id > b._id

\* Insertion of one document into a sorted sequence.
RECURSIVE SortInsert(_, _)
SortInsert(d, sorted) ==
  IF sorted = <<>> THEN <<d>>
  ELSE IF SortBefore(d, Head(sorted)) THEN <<d>> \o sorted
  ELSE <<Head(sorted)>> \o SortInsert(d, Tail(sorted))

\* { $sort: { date: -1, _id: -1 } }
RECURSIVE SortDocs(_)
SortDocs(docs) ==
  IF docs = <<>> THEN <<>>
  ELSE SortInsert(Head(docs), SortDocs(Tail(docs)))

\* Mutant of IncomeOf: the $cond is left out, every amount is added.
IncomeOfAny(d) == d.amount

\* The two $sum accumulators of $group.
IncomeOf(d) == IF d.type = "income" THEN d.amount ELSE 0
ExpenseOf(d) == IF d.type = "expense" THEN d.amount ELSE 0

\* Mutant of GroupKey: the key is the year alone ($month is left out and
\* $dateFromParts takes its default, January).
GroupKeyYearOnly(d) ==
  [year |-> CivilFromDays(d.date.days)[1], month |-> 1]

\* The $group key of a document.
GroupKey(d) ==
  LET civil == CivilFromDays(d.date.days)
  IN  [year |-> civil[1], month |-> civil[2]]

\* $group adds one document to the groups built so far: $push appends it
\* to its group's transactions, $sum adds its amount to the totals.
GroupAdd(groups, d) ==
  LET key == GroupKey(d)
  IN  IF \E g \in 1..Len(groups) : groups[g]._id = key
        THEN [g \in 1..Len(groups) |->
                IF groups[g]._id = key
                  THEN [_id |-> key,
                        transactions |-> Append(groups[g].transactions, d),
                        totalIncome |-> groups[g].totalIncome + IncomeOf(d),
                        totalExpense |-> groups[g].totalExpense + ExpenseOf(d)]
                  ELSE groups[g]]
        ELSE Append(groups,
                    [_id |-> key, transactions |-> <<d>>,
                     totalIncome |-> IncomeOf(d),
                     totalExpense |-> ExpenseOf(d)])

\* { $group: { _id: {year, month}, transactions: {$push: "$$ROOT"}, ... } }
RECURSIVE GroupFrom(_, _)
GroupFrom(groups, docs) ==
  IF docs = <<>> THEN groups
  ELSE GroupFrom(GroupAdd(groups, Head(docs)), Tail(docs))

\* Mutant of Group: the month of the first request date is seeded with an
\* empty bucket.
GroupSeeded(docs) ==
  GroupFrom(<<[_id |-> [year |-> 2023, month |-> 12], transactions |-> <<>>,
               totalIncome |-> 0, totalExpense |-> 0]>>, docs)

Group(docs) == GroupFrom(<<>>, docs)

\* $addFields monthDate, then $project month, transactions, totals, net
\* (monthDate is kept for the next stage).
Project(groups) ==
  [g \in 1..Len(groups) |->
     LET monthDate == DateFromParts(groups[g]._id.year, groups[g]._id.month)
     IN  [month |-> DateToString(monthDate),
          transactions |-> groups[g].transactions,
          totalIncome |-> groups[g].totalIncome,
          totalExpense |-> groups[g].totalExpense,
          net |-> groups[g].totalIncome - groups[g].totalExpense,
          monthDate |-> monthDate]]

\* { $sort: { monthDate: -1 } }, by insertion.
RECURSIVE MonthInsert(_, _)
MonthInsert(s, sorted) ==
  IF sorted = <<>> THEN <<s>>
  ELSE IF s.monthDate > Head(sorted).monthDate THEN <<s>> \o sorted
  ELSE <<Head(sorted)>> \o MonthInsert(s, Tail(sorted))

RECURSIVE SortMonths(_)
SortMonths(ms) ==
  IF ms = <<>> THEN <<>>
  ELSE MonthInsert(Head(ms), SortMonths(Tail(ms)))

\* { $project: { monthDate: 0 } }
DropMonthDate(ms) ==
  [g \in 1..Len(ms) |->
     [month |-> ms[g].month, transactions |-> ms[g].transactions,
      totalIncome |-> ms[g].totalIncome, totalExpense |-> ms[g].totalExpense,
      net |-> ms[g].net]]

\* The stages after the category has been settled, common to both copies.
Summaries(docs) == DropMonthDate(SortMonths(Project(Group(SortDocs(AddDate(docs))))))

\* The documents that reach $toDate in src/unnamed/part_002, scan being
\* the matched transactions in the order the collection returns them.
Enriched(scan, cats) ==
  IfNullCategory(UnwindPreserve(Lookup(scan, cats)))

\* The documents that reach $toDate in src/backend/src/routes/transaction.js.
EnrichedBackend(scan, cats) ==
  PlainCategory(UnwindDrop(Lookup(scan, cats)))

(* ------------------------------ requests ----------------------------- *)

\* The 24-digit hex text of ObjectId n.
HexId(n) == "65a1f0c2d4e5f6a7b8c9d00" \o ToString(n)

\* The ids that the 24-digit hex texts of the model name.
ObjectIds == [s \in {HexId(n) : n \in 1..9} |->
                CHOOSE n \in 1..9 : HexId(n) = s]

\* new ObjectId(s): the id a 24-digit hex text names; BadObjectId stands
\* for the BSONError thrown on any other text.
ObjectIdOf(s) ==
  IF s \in DOMAIN ObjectIds THEN ObjectIds[s] ELSE BadObjectId

\* The POST /transaction requests of the model: the caller and req.body.
\* A field the body lacks is undefined.  The first three bodies are the
\* transactions of the example in section 8 of the specification.
PostTxnRequests ==
  { <<"u1", [date |-> "2023-12-01", type |-> "income", amount |-> 1500,
             categoryId |-> HexId(1)]>>,
    <<"u1", [date |-> "2023-12-15", type |-> "expense", amount |-> 300,
             categoryId |-> HexId(1)]>>,
    <<"u1", [date |-> "2024-01-02", type |-> "expense", amount |-> 50,
             categoryId |-> HexId(2)]>>,
    <<"u1", [date |-> "2024-01-02", type |-> "transfer", amount |-> 7,
             categoryId |-> HexId(1)]>>,
    <<"u2", [date |-> "someday", type |-> "expense", amount |-> 300,
             categoryId |-> HexId(1)]>>,
    <<"u2", [date |-> "2023-12-01", type |-> "income", amount |-> 0,
             categoryId |-> HexId(1)]>>,
    <<"u2", [date |-> "2023-12-01", type |-> "income", amount |-> 1500]>>,
    <<"u1", [date |-> "2023-12-01", type |-> "income", amount |-> 1500,
             categoryId |-> "zzz"]>>,
    <<NoUser, [date |-> "2023-12-01", type |-> "income", amount |-> 1500,
               categoryId |-> HexId(1)]>> }

\* The PUT /transaction/:id requests: the caller, req.params.id, req.body.
\* The update moves the transaction to January 2024; its body also names
\* an owner, a field the handler does not read.
PutTxnRequests ==
  { <<caller, HexId(n),
      [date |-> "2024-01-02", type |-> "expense", amount |-> 50,
       categoryId |-> HexId(2), userId |-> "u1"]>> :
      caller \in Users, n \in 1..MaxTxn }
  \cup { <<"u1", HexId(1), [categoryId |-> "zzz"]>>,
         <<"u2", "zzz", [date |-> "2024-01-02"]>>,
         <<NoUser, HexId(1), [date |-> "2024-01-02"]>> }

\* The DELETE /transaction/:id requests: the caller and req.params.id.
DeleteTxnRequests ==
  { <<caller, HexId(n)>> : caller \in Users, n \in 1..MaxTxn }
  \cup { <<"u2", "zzz">>, <<NoUser, HexId(1)>> }

\* The POST /category requests of the model: the caller and req.body.
PostCatRequests ==
  { <<"u2", [name |-> "Food", icon |-> "pizza", type |-> "expense"]>>,
    <<"u1", [icon |-> "pizza", type |-> "expense"]>>,
    <<NoUser, [name |-> "Food", icon |-> "pizza", type |-> "expense"]>> }

\* The PUT /category/:id requests: the caller, req.params.id, req.body.
PutCatRequests ==
  { <<caller, HexId(n), [name |-> "Groceries", userId |-> "u1"]>> :
      caller \in Users, n \in 1..MaxCat }
  \cup { <<"u1", "zzz", [name |-> "Groceries"]>>,
         <<NoUser, HexId(1), [name |-> "Groceries"]>> }

\* The DELETE /category/:id requests: the caller and req.params.id.
DeleteCatRequests ==
  { <<caller, HexId(n)>> : caller \in Users, n \in 1..MaxCat }
  \cup { <<"u1", "zzz">>, <<NoUser, HexId(1)>> }

\* A string field of a body that is present and not empty (truthy).
HasText(body, f) == f \in DOMAIN body /\ body[f] # ""
\* A numeric field of a body that is present and not 0 (truthy).
HasNumber(body, f) == f \in DOMAIN body /\ body[f] # 0

\* Number(amount) of a JSON number is that number.
Number(x) == x + 0

\* What GET /transaction sends: the status and, with 200, the array of
\* month summaries; userId records whose request it answers.
Response(route, userId, status, body) ==
  [route |-> route, userId |-> userId, status |-> status, body |-> body]

\* What the other handlers send: of their responses the model keeps the
\* status.
Reply(status) == Response("", NoUser, status, <<>>)

\* !isAuthenticated || !userId
NotAuthenticated(caller) == caller = NoUser

(* ------------------------------ /inflation --------------------------- *)

\* Cache time-to-live: 12 hours, in milliseconds.
CACHE_TTL_MS == 1000 * 60 * 60 * 12

\* The clock advances in steps of 6 hours.
ClockStep == 1000 * 60 * 60 * 6

\* The values of req.query.country in the model; "" is no value.
Queries == {"", "usa", "IND"}

\* String.prototype.toUpperCase on the texts of the model.
ToUpperCase(s) ==
  CASE s = "usa" -> "USA"
    [] s = "USA" -> "USA"
    [] s = "IND" -> "IND"

\* (req.query.country || "USA").toUpperCase()
CountryOf(query) == ToUpperCase(IF query = "" THEN "USA" ELSE query)

Countries == {CountryOf(q) : q \in Queries}

\* Mutant of CacheKey: one key for every country.
CacheKeyShared(country) == "inflation:"

\* `inflation:${country}`
CacheKey(country) == "inflation:" \o country

\* A Map with no entry, and Map.prototype.set.
EmptyMap == [k \in {} |-> 0]
MapSet(map, key, value) ==
  [k \in DOMAIN map \cup {key} |-> IF k = key THEN value ELSE map[k]]

\* The body of a response that carries no inflation data.
NoData == [country |-> Null, latest |-> 0]

\* The latest values the World Bank may report at the time of a fetch.
LatestValues == {1, 2}

\* What fetchInflation returns: the country and the latest value (the
\* series is left out).
InflationData(country, value) == [country |-> country, latest |-> value]

\* A response of GET /inflation; at is the time it is sent.
InflationResponse(status, country, data, cached, at) ==
  [status |-> status, country |-> country, data |-> data,
   cached |-> cached, at |-> at]

InitInflation ==
  /\ cache = EmptyMap
  /\ now = 0
  /\ pending = {}
  /\ nextReqId = 1
  /\ sent = InflationResponse(0, Null, NoData, FALSE, 0)
  /\ lastStored = EmptyMap

\* The handler up to its first await: the entry is served when there is
\* one and it has not expired, else the request awaits fetchInflation.
GetInflation(query) ==
  LET country == CountryOf(query)
      cacheKey == CacheKey(country)
  IN  /\ nextReqId <= MaxRequests
      /\ nextReqId' = nextReqId + 1
      /\ IF cacheKey \in DOMAIN cache /\ cache[cacheKey].expiresAt > now
           THEN /\ sent' = InflationResponse(200, country,
                                             cache[cacheKey].data, TRUE, now)
                /\ UNCHANGED pending
           ELSE /\ pending' = pending \cup
                              {[id |-> nextReqId, country |-> country]}
                /\ UNCHANGED sent
      /\ UNCHANGED <<cache, now, lastStored>>

\* fetchInflation resolves for a request that awaits it: the result is
\* stored under the country's key and sent.
FetchResolves(p, value) ==
  LET data == InflationData(p.country, value)
  IN  /\ p \in pending
      /\ pending' = pending \ {p}
      /\ cache' = MapSet(cache, CacheKey(p.country),
                         [data |-> data, expiresAt |-> now + CACHE_TTL_MS])
      /\ lastStored' = MapSet(lastStored, p.country,
                              [data |-> data, at |-> now])
      /\ sent' = InflationResponse(200, p.country, data, FALSE, now)
      /\ UNCHANGED <<now, nextReqId>>

\* fetchInflation throws (the World Bank answers with an error, or cannot
\* be reached): the catch block sends 500.
FetchRejects(p) ==
  /\ p \in pending
  /\ pending' = pending \ {p}
  /\ sent' = InflationResponse(500, p.country, NoData, FALSE, now)
  /\ UNCHANGED <<cache, now, nextReqId, lastStored>>

\* Time passes.
Tick ==
  /\ now < MaxTicks * ClockStep
  /\ now' = now + ClockStep
  /\ UNCHANGED <<cache, pending, nextReqId, sent, lastStored>>

(* --------------------------- initial state --------------------------- *)

\* The collections are empty and nothing has been sent.
Init ==
  /\ transactions = {}
  /\ nextTxnId = 1
  /\ categories = {}
  /\ nextCatId = 1
  /\ res = Reply(0)
  /\ suspended = EmptyBag
  /\ served = 0
  /\ InitInflation

(* --------------------------- answering ------------------------------- *)

\* The handler answers in the turn in which it was called.
Send(response) ==
  /\ res' = response
  /\ UNCHANGED suspended

\* The handler has called the store and is suspended at its await; response
\* is what it will send when the promise settles.
Await(response) ==
  /\ BagCardinality(suspended) < MaxSuspended
  /\ suspended' = suspended (+) SetToBag({response})
  /\ UNCHANGED res

\* The promise of a suspended handler settles: the handler is resumed and
\* sends its response.
Respond(response) ==
  /\ BagIn(response, suspended)
  /\ suspended' = suspended (-) SetToBag({response})
  /\ res' = response
  /\ UNCHANGED <<storeVars, served>>

(* ------------------------- GET /transaction -------------------------- *)

\* The aggregate of src/unnamed/part_002 and the response to it: 500 from
\* the catch when $toDate throws, else 200 with the summaries.
Report(scan, cats, userId) ==
  LET docs == Enriched(scan, cats)
  IN  IF AddDateFails(docs)
        THEN Response("GET /transaction", userId, 500, <<>>)
        ELSE Response("GET /transaction", userId, 200, Summaries(docs))

\* The same for src/backend/src/routes/transaction.js.
ReportBackend(scan, cats, userId) ==
  LET docs == EnrichedBackend(scan, cats)
  IN  IF AddDateFails(docs)
        THEN Response("GET /transaction", userId, 500, <<>>)
        ELSE Response("GET /transaction", userId, 200, Summaries(docs))

\* Mutant of ReportFailed: what the cursor had returned before the read
\* failed is sent as the report.
ReportFailedPartial(scan, cats, userId) ==
  LET docs == Enriched(scan, cats)
  IN  Response("GET /transaction", userId, 200,
               Summaries(SubSeq(docs, 1, Len(docs) - 1)))

\* The response when aggregate(...).toArray() rejects (the store cannot be
\* read): nothing has been sent yet and the catch block sends 500.
ReportFailed(scan, cats, userId) ==
  Response("GET /transaction", userId, 500, <<>>)

\* The read of the store either succeeds or fails, and the collection
\* returns the transactions in any order.
GetTransactions(caller) ==
  /\ \/ /\ NotAuthenticated(caller)
        /\ Send(Response("GET /transaction", caller, 401, <<>>))
     \/ /\ ~NotAuthenticated(caller)
        /\ \E scan \in Scans(Match(transactions, caller)) :
             Await(Report(scan, categories, caller))
     \/ /\ ~NotAuthenticated(caller)
        /\ Await(ReportFailed(Scan(Match(transactions, caller)),
                              categories, caller))
  /\ UNCHANGED storeVars

GetTransactionsBackend(caller) ==
  /\ \/ /\ NotAuthenticated(caller)
        /\ Send(Response("GET /transaction", caller, 401, <<>>))
     \/ /\ ~NotAuthenticated(caller)
        /\ \E scan \in Scans(Match(transactions, caller)) :
             Await(ReportBackend(scan, categories, caller))
     \/ /\ ~NotAuthenticated(caller)
        /\ Await(ReportFailed(Scan(Match(transactions, caller)),
                              categories, caller))
  /\ UNCHANGED storeVars

(* ------------------------- POST /transaction ------------------------- *)

\* The document POST builds from the body.
NewTransaction(id, caller, body) ==
  TxnDoc(id, caller, NewDate(body.date), body.type, Number(body.amount),
         ObjectIdOf(body.categoryId))

\* !date || !type || !amount || !categoryId is false.
PostTxnValid(body) ==
  /\ HasText(body, "date") /\ HasText(body, "type")
  /\ HasNumber(body, "amount") /\ HasText(body, "categoryId")

PostTransaction(caller, body) ==
  \/ /\ NotAuthenticated(caller)
     /\ Send(Reply(401))
     /\ UNCHANGED storeVars
  \/ /\ ~NotAuthenticated(caller)
     /\ ~PostTxnValid(body)
     /\ Send(Reply(400))
     /\ UNCHANGED storeVars
  \/ /\ ~NotAuthenticated(caller)
     /\ PostTxnValid(body)
     /\ ObjectIdOf(body.categoryId) = BadObjectId
     /\ Send(Reply(500))
     /\ UNCHANGED storeVars
  \/ /\ ~NotAuthenticated(caller)
     /\ PostTxnValid(body)
     /\ ObjectIdOf(body.categoryId) # BadObjectId
     /\ nextTxnId <= MaxTxn
     /\ transactions' =
          transactions \cup {NewTransaction(nextTxnId, caller, body)}
     /\ nextTxnId' = nextTxnId + 1
     /\ Await(Reply(201))
     /\ UNCHANGED <<categories, nextCatId>>
  \/ /\ ~NotAuthenticated(caller)
     /\ PostTxnValid(body)
     /\ ObjectIdOf(body.categoryId) # BadObjectId
     /\ Await(Reply(500))
     /\ UNCHANGED storeVars

(* ------------------------ PUT /transaction/:id ----------------------- *)

\* Mutant of ApplyTxnUpdates: the whole body is set ({ ...req.body }), so
\* a userId of the body replaces the owner.
ApplyTxnUpdatesSpread(d, body) ==
  [d EXCEPT
     !.userId = IF "userId" \in DOMAIN body THEN body.userId ELSE @,
     !.date = IF HasText(body, "date") THEN NewDate(body.date) ELSE @,
     !.type = IF HasText(body, "type") THEN body.type ELSE @,
     !.amount = IF "amount" \in DOMAIN body THEN Number(body.amount) ELSE @,
     !.categoryId = IF HasText(body, "categoryId")
                      THEN ObjectIdOf(body.categoryId) ELSE @]

\* { $set: updates }: updates holds the fields date, type, amount and
\* categoryId the body gives, and no other field of the body.
ApplyTxnUpdates(d, body) ==
  [d EXCEPT
     !.date = IF HasText(body, "date") THEN NewDate(body.date) ELSE @,
     !.type = IF HasText(body, "type") THEN body.type ELSE @,
     !.amount = IF "amount" \in DOMAIN body THEN Number(body.amount) ELSE @,
     !.categoryId = IF HasText(body, "categoryId")
                      THEN ObjectIdOf(body.categoryId) ELSE @]

\* Building updates, or the filter, throws.
PutTxnThrows(id, body) ==
  \/ HasText(body, "categoryId") /\ ObjectIdOf(body.categoryId) = BadObjectId
  \/ ObjectIdOf(id) = BadObjectId

\* Mutant of OwnedById: the filter is { _id } alone.
OwnedByIdOfAnyone(coll, id, caller) ==
  {d \in coll : d._id = ObjectIdOf(id)}

\* The documents the filter { _id, userId } matches.
OwnedById(coll, id, caller) ==
  {d \in coll : d._id = ObjectIdOf(id) /\ d.userId = caller}

PutTransaction(caller, id, body) ==
  \/ /\ NotAuthenticated(caller)
     /\ Send(Reply(401))
     /\ UNCHANGED storeVars
  \/ /\ ~NotAuthenticated(caller)
     /\ PutTxnThrows(id, body)
     /\ Send(Reply(500))
     /\ UNCHANGED storeVars
  \/ /\ ~NotAuthenticated(caller)
     /\ ~PutTxnThrows(id, body)
     /\ OwnedById(transactions, id, caller) = {}
     /\ Await(Reply(404))
     /\ UNCHANGED storeVars
  \/ /\ ~NotAuthenticated(caller)
     /\ ~PutTxnThrows(id, body)
     /\ OwnedById(transactions, id, caller) # {}
     /\ transactions' =
          {IF d \in OwnedById(transactions, id, caller)
             THEN ApplyTxnUpdates(d, body) ELSE d : d \in transactions}
     /\ Await(Reply(200))
     /\ UNCHANGED <<categories, nextTxnId, nextCatId>>
  \/ /\ ~NotAuthenticated(caller)
     /\ ~PutTxnThrows(id, body)
     /\ Await(Reply(500))
     /\ UNCHANGED storeVars

(* ---------------------- DELETE /transaction/:id ---------------------- *)

DeleteTransaction(caller, id) ==
  \/ /\ NotAuthenticated(caller)
     /\ Send(Reply(401))
     /\ UNCHANGED storeVars
  \/ /\ ~NotAuthenticated(caller)
     /\ ObjectIdOf(id) = BadObjectId
     /\ Send(Reply(500))
     /\ UNCHANGED storeVars
  \/ /\ ~NotAuthenticated(caller)
     /\ ObjectIdOf(id) # BadObjectId
     /\ OwnedById(transactions, id, caller) = {}
     /\ Await(Reply(404))
     /\ UNCHANGED storeVars
  \/ /\ ~NotAuthenticated(caller)
     /\ ObjectIdOf(id) # BadObjectId
     /\ OwnedById(transactions, id, caller) # {}
     /\ transactions' = transactions \ OwnedById(transactions, id, caller)
     /\ Await(Reply(200))
     /\ UNCHANGED <<categories, nextTxnId, nextCatId>>
  \/ /\ ~NotAuthenticated(caller)
     /\ ObjectIdOf(id) # BadObjectId
     /\ Await(Reply(500))
     /\ UNCHANGED storeVars

(* ------------------------------ /category ---------------------------- *)

\* GET /category: find({ userId }).toArray(), the caller's categories in
\* the order the collection returns them, or 500 when the read fails.
GetCategories(caller) ==
  /\ \/ /\ NotAuthenticated(caller)
        /\ Send(Response("GET /category", caller, 401, <<>>))
     \/ /\ ~NotAuthenticated(caller)
        /\ \E found \in Scans({c \in categories : c.userId = caller}) :
             Await(Response("GET /category", caller, 200, found))
     \/ /\ ~NotAuthenticated(caller)
        /\ Await(Response("GET /category", caller, 500, <<>>))
  /\ UNCHANGED storeVars

\* GET /category of the copies that do not call getAuth (src/unnamed/
\* part_001 and the second file of src/backend/src/routes/currency.js):
\* find({}).toArray(), every stored category, whoever the caller is.  When the read fails the
\* copy of currency.js sends 500; the copy of part_001 has no catch and
\* sends nothing, which is no step.
GetAllCategories ==
  /\ \/ \E found \in Scans(categories) :
          Await(Response("GET /category", NoUser, 200, found))
     \/ Await(Response("GET /category", NoUser, 500, <<>>))
  /\ UNCHANGED storeVars

PostCategory(caller, body) ==
  \/ /\ NotAuthenticated(caller)
     /\ Send(Reply(401))
     /\ UNCHANGED storeVars
  \/ /\ ~NotAuthenticated(caller)
     /\ ~(HasText(body, "name") /\ HasText(body, "type"))
     /\ Send(Reply(400))
     /\ UNCHANGED storeVars
  \/ /\ ~NotAuthenticated(caller)
     /\ HasText(body, "name") /\ HasText(body, "type")
     /\ nextCatId <= MaxCat
     /\ categories' = categories \cup
          {CatDoc(nextCatId, caller, body.name,
                  IF "icon" \in DOMAIN body THEN body.icon ELSE Null,
                  body.type)}
     /\ nextCatId' = nextCatId + 1
     /\ Await(Reply(201))
     /\ UNCHANGED <<transactions, nextTxnId>>
  \/ /\ ~NotAuthenticated(caller)
     /\ HasText(body, "name") /\ HasText(body, "type")
     /\ Await(Reply(500))
     /\ UNCHANGED storeVars

\* The bodies of the POST /category requests that src/unnamed/part_001
\* serves: it reads no caller.
PostCatUnownedBodies == {req[2] : req \in PostCatRequests}

\* A field of a body, or null when the body does not have it.
FieldOf(body, f) == IF f \in DOMAIN body THEN body[f] ELSE Null

\* POST /category of src/unnamed/part_001: no call of getAuth and no
\* required field; the document has no owner (userId is Null, as a field
\* the document lacks reads) and an empty list of transactions.
\* res.send(result) sends 200 and the .status(204) after it changes
\* nothing that is sent.
PostCategoryUnowned(body) ==
  \/ /\ nextCatId <= MaxCat
     /\ categories' = categories \cup
          {[_id |-> nextCatId, userId |-> Null,
            name |-> FieldOf(body, "name"), icon |-> FieldOf(body, "icon"),
            type |-> FieldOf(body, "type"), transactions |-> <<>>]}
     /\ nextCatId' = nextCatId + 1
     /\ Await(Reply(200))
     /\ UNCHANGED <<transactions, nextTxnId>>
  \/ /\ Await(Reply(500))
     /\ UNCHANGED storeVars

\* { $set: { ...req.body, updatedAt } }: every field of the body is set.
ApplyCatUpdates(c, body) ==
  [c EXCEPT
     !.userId = IF "userId" \in DOMAIN body THEN body.userId ELSE @,
     !.name = IF "name" \in DOMAIN body THEN body.name ELSE @,
     !.icon = IF "icon" \in DOMAIN body THEN body.icon ELSE @,
     !.type = IF "type" \in DOMAIN body THEN body.type ELSE @]

PutCategory(caller, id, body) ==
  \/ /\ NotAuthenticated(caller)
     /\ Send(Reply(401))
     /\ UNCHANGED storeVars
  \/ /\ ~NotAuthenticated(caller)
     /\ ObjectIdOf(id) = BadObjectId
     /\ Send(Reply(500))
     /\ UNCHANGED storeVars
  \/ /\ ~NotAuthenticated(caller)
     /\ ObjectIdOf(id) # BadObjectId
     /\ OwnedById(categories, id, caller) = {}
     /\ Await(Reply(404))
     /\ UNCHANGED storeVars
  \/ /\ ~NotAuthenticated(caller)
     /\ ObjectIdOf(id) # BadObjectId
     /\ OwnedById(categories, id, caller) # {}
     /\ categories' =
          {IF c \in OwnedById(categories, id, caller)
             THEN ApplyCatUpdates(c, body) ELSE c : c \in categories}
     /\ Await(Reply(200))
     /\ UNCHANGED <<transactions, nextTxnId, nextCatId>>
  \/ /\ ~NotAuthenticated(caller)
     /\ ObjectIdOf(id) # BadObjectId
     /\ Await(Reply(500))
     /\ UNCHANGED storeVars

DeleteCategory(caller, id) ==
  \/ /\ NotAuthenticated(caller)
     /\ Send(Reply(401))
     /\ UNCHANGED storeVars
  \/ /\ ~NotAuthenticated(caller)
     /\ ObjectIdOf(id) = BadObjectId
     /\ Send(Reply(500))
     /\ UNCHANGED storeVars
  \/ /\ ~NotAuthenticated(caller)
     /\ ObjectIdOf(id) # BadObjectId
     /\ OwnedById(categories, id, caller) = {}
     /\ Await(Reply(404))
     /\ UNCHANGED storeVars
  \/ /\ ~NotAuthenticated(caller)
     /\ ObjectIdOf(id) # BadObjectId
     /\ OwnedById(categories, id, caller) # {}
     /\ categories' = categories \ OwnedById(categories, id, caller)
     /\ Await(Reply(200))
     /\ UNCHANGED <<transactions, nextTxnId, nextCatId>>
  \/ /\ ~NotAuthenticated(caller)
     /\ ObjectIdOf(id) # BadObjectId
     /\ Await(Reply(500))
     /\ UNCHANGED storeVars

(* --------------------------- specification --------------------------- *)

\* app.use(path, requireAuth(), router): requireAuth() of @clerk/express
\* answers a request without a session itself, response.redirect(signInUrl)
\* (status 302), and does not call next(); a request with a session goes
\* on to the handler of its route.
RequireAuth(caller, route, handler) ==
  IF NotAuthenticated(caller)
    THEN /\ Send(Response(route, NoUser, 302, <<>>))
         /\ UNCHANGED storeVars
    ELSE handler

\* A request arrives, while fewer than max have.
Arrive(max) ==
  /\ served < max
  /\ served' = served + 1

\* Every route of /transaction and /category as app.js mounts it, behind
\* requireAuth(), and the turn in which a suspended handler sends its
\* response; at most MaxCalls requests arrive.
Next ==
  \/ /\ Arrive(MaxCalls)
     /\ \E caller \in Callers :
          RequireAuth(caller, "GET /transaction", GetTransactions(caller))
     /\ UNCHANGED inflationVars
  \/ /\ Arrive(MaxCalls)
     /\ \E caller \in Callers :
          RequireAuth(caller, "GET /transaction",
                      GetTransactionsBackend(caller))
     /\ UNCHANGED inflationVars
  \/ /\ Arrive(MaxCalls)
     /\ \E req \in PostTxnRequests :
          RequireAuth(req[1], "", PostTransaction(req[1], req[2]))
     /\ UNCHANGED inflationVars
  \/ /\ Arrive(MaxCalls)
     /\ \E req \in PutTxnRequests :
          RequireAuth(req[1], "", PutTransaction(req[1], req[2], req[3]))
     /\ UNCHANGED inflationVars
  \/ /\ Arrive(MaxCalls)
     /\ \E req \in DeleteTxnRequests :
          RequireAuth(req[1], "", DeleteTransaction(req[1], req[2]))
     /\ UNCHANGED inflationVars
  \/ /\ Arrive(MaxCalls)
     /\ \E caller \in Callers :
          RequireAuth(caller, "GET /category", GetCategories(caller))
     /\ UNCHANGED inflationVars
  \/ /\ Arrive(MaxCalls)
     /\ \E caller \in Callers :
          RequireAuth(caller, "GET /category", GetAllCategories)
     /\ UNCHANGED inflationVars
  \/ /\ Arrive(MaxCalls)
     /\ \E req \in PostCatRequests :
          RequireAuth(req[1], "", PostCategory(req[1], req[2]))
     /\ UNCHANGED inflationVars
  \/ /\ Arrive(MaxCalls)
     /\ \E caller \in Callers : \E body \in PostCatUnownedBodies :
          RequireAuth(caller, "", PostCategoryUnowned(body))
     /\ UNCHANGED inflationVars
  \/ /\ Arrive(MaxCalls)
     /\ \E req \in PutCatRequests :
          RequireAuth(req[1], "", PutCategory(req[1], req[2], req[3]))
     /\ UNCHANGED inflationVars
  \/ /\ Arrive(MaxCalls)
     /\ \E req \in DeleteCatRequests :
          RequireAuth(req[1], "", DeleteCategory(req[1], req[2]))
     /\ UNCHANGED inflationVars
  \/ /\ \E response \in BagToSet(suspended) : Respond(response)
     /\ UNCHANGED inflationVars

\* The same routes and turns; at most MaxShortCalls requests arrive.
NextShort ==
  \/ /\ Arrive(MaxShortCalls)
     /\ \E caller \in Callers :
          RequireAuth(caller, "GET /transaction", GetTransactions(caller))
     /\ UNCHANGED inflationVars
  \/ /\ Arrive(MaxShortCalls)
     /\ \E caller \in Callers :
          RequireAuth(caller, "GET /transaction",
                      GetTransactionsBackend(caller))
     /\ UNCHANGED inflationVars
  \/ /\ Arrive(MaxShortCalls)
     /\ \E req \in PostTxnRequests :
          RequireAuth(req[1], "", PostTransaction(req[1], req[2]))
     /\ UNCHANGED inflationVars
  \/ /\ Arrive(MaxShortCalls)
     /\ \E req \in PutTxnRequests :
          RequireAuth(req[1], "", PutTransaction(req[1], req[2], req[3]))
     /\ UNCHANGED inflationVars
  \/ /\ Arrive(MaxShortCalls)
     /\ \E req \in DeleteTxnRequests :
          RequireAuth(req[1], "", DeleteTransaction(req[1], req[2]))
     /\ UNCHANGED inflationVars
  \/ /\ Arrive(MaxShortCalls)
     /\ \E caller \in Callers :
          RequireAuth(caller, "GET /category", GetCategories(caller))
     /\ UNCHANGED inflationVars
  \/ /\ Arrive(MaxShortCalls)
     /\ \E caller \in Callers :
          RequireAuth(caller, "GET /category", GetAllCategories)
     /\ UNCHANGED inflationVars
  \/ /\ Arrive(MaxShortCalls)
     /\ \E req \in PostCatRequests :
          RequireAuth(req[1], "", PostCategory(req[1], req[2]))
     /\ UNCHANGED inflationVars
  \/ /\ Arrive(MaxShortCalls)
     /\ \E caller \in Callers : \E body \in PostCatUnownedBodies :
          RequireAuth(caller, "", PostCategoryUnowned(body))
     /\ UNCHANGED inflationVars
  \/ /\ Arrive(MaxShortCalls)
     /\ \E req \in PutCatRequests :
          RequireAuth(req[1], "", PutCategory(req[1], req[2], req[3]))
     /\ UNCHANGED inflationVars
  \/ /\ Arrive(MaxShortCalls)
     /\ \E req \in DeleteCatRequests :
          RequireAuth(req[1], "", DeleteCategory(req[1], req[2]))
     /\ UNCHANGED inflationVars
  \/ /\ \E response \in BagToSet(suspended) : Respond(response)
     /\ UNCHANGED inflationVars

\* The requests that write to the store: POST, PUT and DELETE (what they
\* do depends on the store alone, which no GET changes).
NextWrites ==
  \/ /\ Arrive(MaxShortCalls)
     /\ \E req \in PostTxnRequests :
          RequireAuth(req[1], "", PostTransaction(req[1], req[2]))
     /\ UNCHANGED inflationVars
  \/ /\ Arrive(MaxShortCalls)
     /\ \E req \in PutTxnRequests :
          RequireAuth(req[1], "", PutTransaction(req[1], req[2], req[3]))
     /\ UNCHANGED inflationVars
  \/ /\ Arrive(MaxShortCalls)
     /\ \E req \in DeleteTxnRequests :
          RequireAuth(req[1], "", DeleteTransaction(req[1], req[2]))
     /\ UNCHANGED inflationVars
  \/ /\ Arrive(MaxShortCalls)
     /\ \E req \in PostCatRequests :
          RequireAuth(req[1], "", PostCategory(req[1], req[2]))
     /\ UNCHANGED inflationVars
  \/ /\ Arrive(MaxShortCalls)
     /\ \E caller \in Callers : \E body \in PostCatUnownedBodies :
          RequireAuth(caller, "", PostCategoryUnowned(body))
     /\ UNCHANGED inflationVars
  \/ /\ Arrive(MaxShortCalls)
     /\ \E req \in PutCatRequests :
          RequireAuth(req[1], "", PutCategory(req[1], req[2], req[3]))
     /\ UNCHANGED inflationVars
  \/ /\ Arrive(MaxShortCalls)
     /\ \E req \in DeleteCatRequests :
          RequireAuth(req[1], "", DeleteCategory(req[1], req[2]))
     /\ UNCHANGED inflationVars
  \/ /\ \E response \in BagToSet(suspended) : Respond(response)
     /\ UNCHANGED inflationVars

\* The requests of /inflation, interleaved at the handler's await.
NextInflation ==
  \/ /\ \E query \in Queries : GetInflation(query)
     /\ UNCHANGED apiVars
  \/ /\ \E p \in pending : \E value \in LatestValues :
          FetchResolves(p, value)
     /\ UNCHANGED apiVars
  \/ /\ \E p \in pending : FetchRejects(p)
     /\ UNCHANGED apiVars
  \/ /\ Tick
     /\ UNCHANGED apiVars

Spec == Init /\ [][Next]_vars

\* Every route, over fewer requests.
SpecShort == Init /\ [][NextShort]_vars

\* The writing requests alone.
SpecWrites == Init /\ [][NextWrites]_vars

\* GET /inflation alone, over an empty store.
SpecInflation == Init /\ [][NextInflation]_vars

(* ------------------------- reading a response ------------------------ *)

\* The last response is a monthly report (GET /transaction answered 200).
\* It may have been read from the store before later writes.
IsReport == res.route = "GET /transaction" /\ res.status = 200

\* The stored transactions of a caller.
Owned(userId) == {d \in transactions : d.userId = userId}

\* What either GET /transaction handler answers a caller whose read of
\* the store, as it is now, succeeds.
ReadAnswers(userId) ==
  {Report(scan, categories, userId) : scan \in Scans(Owned(userId))}
    \cup {ReportBackend(scan, categories, userId) :
             scan \in Scans(Owned(userId))}

\* The same, the answer to a read that fails included.
Answers(userId) ==
  ReadAnswers(userId)
    \cup {ReportFailed(Scan(Owned(userId)), categories, userId)}

\* The last response answers a GET /transaction of an authenticated
\* caller, and the store is as that request read it: the response is what
\* a request reading the store now is answered.
IsReportRequestNow ==
  /\ res.route = "GET /transaction"
  /\ res.userId \in Users
  /\ res \in Answers(res.userId)

\* The last response is a monthly report of the store as it is now.
IsReportNow == IsReport /\ IsReportRequestNow

\* The transactions of all summaries of a report, in order.
RECURSIVE Listed(_)
Listed(body) ==
  IF body = <<>> THEN <<>>
  ELSE Head(body).transactions \o Listed(Tail(body))

\* How many times the transaction with this id is listed.
Times(docs, id) == Cardinality({i \in 1..Len(docs) : docs[i]._id = id})

\* A stored date that is a calendar date, and its <<year, month>>: read
\* from the text when the date is stored as a string, <<0, 0>> when it is
\* no calendar date.
IsCalendarDate(v) == v.t = "date" \/ v.text \in IsoDates

YearMonth(v) ==
  IF v.t = "date" THEN <<YearOf(v.days), MonthOf(v.days)>>
  ELSE IF v.text \in IsoDates
    THEN <<IsoFields(v.text)[1], IsoFields(v.text)[2]>>
  ELSE <<0, 0>>

\* The label of a <<year, month>>: abbreviated month name, 4-digit year.
Label(ym) == MonthAbbrev[ym[2]] \o " " \o Pad4(ym[1])

\* The <<year, month>> a label names, among the years of the model.
LabelYears == {1970, 2023, 2024}
YearMonthOfLabel(label) ==
  CHOOSE ym \in LabelYears \X (1..12) : Label(ym) = label

\* The category reference of a stored transaction resolves to no category.
Unresolved(d) == \A c \in categories : c._id # d.categoryId

\* The sum of amount over the listed transactions of one type.
RECURSIVE SumOfType(_, _)
SumOfType(docs, type) ==
  IF docs = <<>> THEN 0
  ELSE (IF Head(docs).type = type THEN Head(docs).amount ELSE 0)
         + SumOfType(Tail(docs), type)

RECURSIVE SumAll(_)
SumAll(docs) ==
  IF docs = <<>> THEN 0 ELSE Head(docs).amount + SumAll(Tail(docs))

(* ------------------------------- claims ------------------------------ *)

\* C1 (completeness): a report for a caller who owns N transactions in M
\* distinct calendar months has exactly M summaries, and the summaries
\* together list each of the N owned transactions exactly once, whether or
\* not the transaction's category resolves.  Stated of a report of the
\* store as it is now.
C1_Completeness ==
  IsReportNow =>
    LET mine == Owned(res.userId)
        listed == Listed(res.body)
    IN  /\ Len(res.body) = Cardinality({YearMonth(d.date) : d \in mine})
        /\ Len(listed) = Cardinality(mine)
        /\ \A d \in mine : Times(listed, d._id) = 1

\* C2 (category fallback): a transaction whose category reference is null
\* or matches no stored category is listed in the report with the category
\* "Uncategorized", its own type, no icon and a null id, and a missing
\* category never makes the request fail: when every date of the caller
\* is a calendar date, a read of the store that succeeds is answered 200.
\* Stated of a report of the store as it is now.
C2_CategoryFallback ==
  /\ IsReportNow =>
       \A d \in Owned(res.userId) :
         Unresolved(d) =>
           \E i \in 1..Len(Listed(res.body)) :
             /\ Listed(res.body)[i]._id = d._id
             /\ Listed(res.body)[i].category.name = "Uncategorized"
             /\ Listed(res.body)[i].category.type = d.type
             /\ Listed(res.body)[i].category.icon = Null
             /\ Listed(res.body)[i].category._id = NullId
  /\ \A userId \in Users :
       (\A d \in Owned(userId) : IsCalendarDate(d.date)) =>
         \A r \in ReadAnswers(userId) : r.status = 200

\* C3 (ownership isolation): every transaction listed in a report has the
\* owner the report was built for; and in a report of the store as it is
\* now it is a stored transaction of that owner.
C3_OwnershipIsolation ==
  /\ IsReport =>
       \A i \in 1..Len(Listed(res.body)) :
         Listed(res.body)[i].userId = res.userId
  /\ IsReportNow =>
       \A i \in 1..Len(Listed(res.body)) :
         \E d \in Owned(res.userId) : d._id = Listed(res.body)[i]._id

\* C3 witness: a report of the store as it is now with a transaction in
\* it, while the other user owns a stored transaction.
C3_Witness ==
  /\ IsReportNow
  /\ res.body # <<>>
  /\ \E d \in transactions, e \in transactions :
       /\ d.userId = res.userId /\ e.userId \in Users \ {res.userId}
       /\ IsCalendarDate(d.date) /\ IsCalendarDate(e.date)

\* C4 (cross-owner category): a listed transaction whose category
\* reference points at a category of another owner shows the placeholder
\* category, never that owner's category.  Stated of a report of the store
\* as it is now.
C4_CrossOwnerCategory ==
  IsReportNow =>
    \A i \in 1..Len(Listed(res.body)) :
      LET t == Listed(res.body)[i]
      IN  (\E c \in categories :
             c._id = t.categoryId /\ c.userId # res.userId) =>
            t.category = FallbackCategory(t.type)

\* C5 (totals): in every summary totalIncome is the sum of amount over its
\* income transactions, totalExpense the sum over its expense
\* transactions, and net is totalIncome - totalExpense.
C5_Totals ==
  IsReport =>
    \A g \in 1..Len(res.body) :
      LET s == res.body[g]
      IN  /\ s.totalIncome = SumOfType(s.transactions, "income")
          /\ s.totalExpense = SumOfType(s.transactions, "expense")
          /\ s.net = s.totalIncome - s.totalExpense

\* C5 witness: a summary with an income and an expense transaction.
C5_Witness ==
  /\ IsReport
  /\ \E g \in 1..Len(res.body) :
       res.body[g].totalIncome > 0 /\ res.body[g].totalExpense > 0

\* C6 (totals are exhaustive): in every summary each transaction counts in
\* exactly one of the two totals, so totalIncome + totalExpense is the sum
\* of amount over all of the summary's transactions.
C6_TotalsExhaustive ==
  IsReport =>
    \A g \in 1..Len(res.body) :
      res.body[g].totalIncome + res.body[g].totalExpense
        = SumAll(res.body[g].transactions)

\* C7 (ordering): the summaries of a report are strictly descending by
\* (year, month); inside a summary the transactions are strictly
\* descending by (date, id).
C7_Ordering ==
  IsReport =>
    /\ \A g \in 1..Len(res.body), h \in 1..Len(res.body) :
         g < h =>
           LET a == YearMonthOfLabel(res.body[g].month)
               b == YearMonthOfLabel(res.body[h].month)
           IN  a[1] > b[1] \/ (a[1] = b[1] /\ a[2] > b[2])
    /\ \A g \in 1..Len(res.body) :
         LET ts == res.body[g].transactions
         IN  \A i \in 1..Len(ts), j \in 1..Len(ts) :
               i < j =>
                 \/ ts[i].date.days > ts[j].date.days
                 \/ ts[i].date.days = ts[j].date.days /\ ts[i]._id > ts[j]._id

\* C7 witness: a report of January 2024 before December 2023, the
\* December transaction being the one stored first.
C7_Witness ==
  /\ IsReport
  /\ Len(res.body) = 2
  /\ res.body[1].month = "Jan 2024" /\ res.body[2].month = "Dec 2023"
  /\ res.body[2].transactions[1]._id = 1

\* C8 (bucket membership): every listed transaction sits in exactly one
\* summary, the one whose label is the abbreviated month name and 4-digit
\* year of the transaction's own stored date; no two summaries of a report
\* have the same label.  The stored date is that of the store as the
\* report read it; the listed date is in every report.
C8_BucketMembership ==
  /\ IsReportNow =>
       \A g \in 1..Len(res.body) :
         \A i \in 1..Len(res.body[g].transactions) :
           \E d \in transactions :
             /\ d._id = res.body[g].transactions[i]._id
             /\ IsCalendarDate(d.date)
             /\ res.body[g].month = Label(YearMonth(d.date))
             /\ Times(Listed(res.body), d._id) = 1
  /\ IsReport =>
       /\ \A g \in 1..Len(res.body) :
            \A i \in 1..Len(res.body[g].transactions) :
              res.body[g].month =
                Label(YearMonth(res.body[g].transactions[i].date))
       /\ \A g \in 1..Len(res.body), h \in 1..Len(res.body) :
            g # h => res.body[g].month # res.body[h].month

\* C8 witness: a report with a summary of two transactions of different
\* days of one month.
C8_Witness ==
  /\ IsReportNow
  /\ \E g \in 1..Len(res.body) :
       /\ Len(res.body[g].transactions) = 2
       /\ res.body[g].transactions[1].date.days
            > res.body[g].transactions[2].date.days

\* C9 (no empty months): every summary lists at least one transaction, and
\* in a report of the store as it is now its month is the month of a
\* transaction the caller owns, so a month whose last transaction was
\* deleted or moved away has no summary.
C9_NoEmptyMonths ==
  /\ IsReport =>
       \A g \in 1..Len(res.body) : res.body[g].transactions # <<>>
  /\ IsReportNow =>
       \A g \in 1..Len(res.body) :
         \E d \in Owned(res.userId) :
           /\ IsCalendarDate(d.date)
           /\ res.body[g].month = Label(YearMonth(d.date))

\* C9 witness: u2's report after u2's transaction was moved away from its
\* month.  The only POST of u2 stores a transaction of January 1970, so a
\* transaction of u2 in January 2024 is one that a PUT of u2 moved there;
\* the report has a summary for January 2024 and none for January 1970.
C9_Witness ==
  /\ IsReportNow
  /\ res.userId = "u2"
  /\ Owned("u2") # {}
  /\ \A d \in Owned("u2") : YearMonth(d.date) = <<2024, 1>>
  /\ Len(res.body) = 1
  /\ res.body[1].month = "Jan 2024"

\* The date texts of the POST /transaction requests that no calendar
\* date can be read from.
UnreadableDates == {req[2].date : req \in PostTxnRequests} \ IsoDates

\* The date of a stored transaction cannot be converted to a calendar
\* date: it is a string that is no date, or it is what new Date(date)
\* left in the store of a request date that is no date (the epoch, which
\* no date of IsoDates is).
HasUnreadableDate(d) ==
  \/ ~IsCalendarDate(d.date)
  \/ d.date \in {NewDate(t) : t \in UnreadableDates}

AllOrNothing(noSession) ==
  /\ res.route = "GET /transaction" =>
       /\ res.status \in {200, 500, noSession}
       /\ (res.status = noSession) <=> (res.userId = NoUser)
       /\ res.status # 200 => res.body = <<>>
  /\ IsReportNow =>
       \A d \in Owned(res.userId) :
         ~Unresolved(d) => Times(Listed(res.body), d._id) = 1
  /\ \A r \in BagToSet(suspended) :
       r.route = "GET /transaction" =>
         /\ r.status \in {200, 500}
         /\ r.userId \in Users
         /\ r.status # 200 => r.body = <<>>

DeletedCategoryIds ==
  {n \in 1..(nextCatId - 1) : \A c \in categories : c._id # n}

\* C12 (no cascade on category delete): a step that deletes a category
\* removes that one category and leaves the stored transactions as they
\* are; and a transaction whose categoryId names a deleted category is
\* in its owner's report of the store as it is now, once, in the summary
\* of its month, whose totals count it.
C12_NoCascadeOnCategoryDelete ==
  /\ [][(categories' # categories /\ categories' \subseteq categories) =>
         /\ transactions' = transactions
         /\ Cardinality(categories') = Cardinality(categories) - 1]_vars
  /\ [](IsReportNow =>
         \A d \in Owned(res.userId) :
           d.categoryId \in DeletedCategoryIds =>
             \E g \in 1..Len(res.body) :
               /\ res.body[g].month = Label(YearMonth(d.date))
               /\ Times(res.body[g].transactions, d._id) = 1
               /\ res.body[g].totalIncome =
                    SumOfType(res.body[g].transactions, "income")
               /\ res.body[g].totalExpense =
                    SumOfType(res.body[g].transactions, "expense"))

\* C13 (transaction ownership is immutable): a transaction enters the
\* store by a POST /transaction and its owner is that request's caller;
\* no step, a PUT /transaction/:id with any body included, changes the
\* owner of a stored transaction.
C13_TxnOwnershipImmutable ==
  [][/\ \A d \in transactions : \A e \in transactions' :
          e._id = d._id => e.userId = d.userId
     /\ \A e \in transactions' :
          (\A d \in transactions : d._id # e._id) =>
            \E req \in PostTxnRequests :
              req[1] = e.userId /\ PostTransaction(req[1], req[2])]_vars

\* C13 witness: a transaction u2 created has been updated by the PUT whose
\* body names u1 as owner (it carries that body's date and amount), and
\* it is still u2's.
C13_Witness ==
  /\ res = Reply(200)
  /\ \E d \in transactions :
       /\ d.userId = "u2"
       /\ d.date = NewDate("2024-01-02")
       /\ d.amount = 50

\* C14 (determinism): a report is the same whatever order the collection
\* returns the stored transactions in: while the store is as the report
\* read it, every order of the scan gives the response that was sent; and
\* two listed transactions of the same date are in descending order of id.
C14_Determinism ==
  /\ IsReportNow =>
       \/ \A scan \in Scans(Owned(res.userId)) :
            Report(scan, categories, res.userId) = res
       \/ \A scan \in Scans(Owned(res.userId)) :
            ReportBackend(scan, categories, res.userId) = res
  /\ IsReport =>
       \A g \in 1..Len(res.body) :
         LET listed == res.body[g].transactions
         IN  \A i \in 1..Len(listed) : \A j \in 1..Len(listed) :
               (i < j /\ listed[i].date = listed[j].date) =>
                 listed[i]._id > listed[j]._id

\* C14 witness: a report with a summary of two transactions of the same
\* date, which two orders of the scan return differently.
C14_Witness ==
  /\ IsReportNow
  /\ \E g \in 1..Len(res.body) :
       /\ Len(res.body[g].transactions) = 2
       /\ res.body[g].transactions[1].date = res.body[g].transactions[2].date
  /\ Cardinality(Scans(Owned(res.userId))) >= 2

\* The caller owns the record of a collection that the id names.
Owns(coll, id, caller) ==
  \E d \in coll : d._id = ObjectIdOf(id) /\ d.userId = caller

\* The id names a stored record of the collection.
Stored(coll, id) == \E d \in coll : d._id = ObjectIdOf(id)

\* The step of a request answers with one of the statuses: it sends the
\* response at once, or it suspends the handler with the response that
\* the handler sends when it resumes.
Answered(statuses) ==
  \/ suspended' = suspended /\ res'.status \in statuses
  \/ \E r \in BagToSet(suspended') :
       /\ suspended' = suspended (+) SetToBag({r})
       /\ r.status \in statuses

\* What a step of a PUT or DELETE request must do when its caller is not
\* the owner of the record: a caller without a session is answered
\* noSession, an authenticated caller who does not own the record is
\* answered 404, or onThrow when the request throws (throws: its id, or
\* the categoryId of its body, is no ObjectId), or onReject when the store
\* call fails, and no record changes.  With storedOnly the requests whose
\* id names no stored record are left aside.
Refused(coll, caller, id, throws, noSession, onThrow, onReject,
        storedOnly) ==
  /\ caller = NoUser => Answered({noSession}) /\ UNCHANGED storeVars
  /\ (/\ caller \in Users
      /\ ~Owns(coll, id, caller)
      /\ storedOnly => Stored(coll, id)) =>
       /\ Answered(IF throws THEN {onThrow} ELSE {404, onReject})
       /\ UNCHANGED storeVars

\* In the current state no PUT or DELETE request, as app.js mounts its
\* route, has an outcome other than the one Refused describes.
OwnerOnly(noSession, onThrow, onReject, storedOnly) ==
  /\ \A req \in PutTxnRequests :
       ~ENABLED (/\ RequireAuth(req[1], "",
                                PutTransaction(req[1], req[2], req[3]))
                 /\ ~Refused(transactions, req[1], req[2],
                             PutTxnThrows(req[2], req[3]), noSession,
                             onThrow, onReject, storedOnly))
  /\ \A req \in DeleteTxnRequests :
       ~ENABLED (/\ RequireAuth(req[1], "", DeleteTransaction(req[1], req[2]))
                 /\ ~Refused(transactions, req[1], req[2],
                             ObjectIdOf(req[2]) = BadObjectId, noSession,
                             onThrow, onReject, storedOnly))
  /\ \A req \in PutCatRequests :
       ~ENABLED (/\ RequireAuth(req[1], "", PutCategory(req[1], req[2], req[3]))
                 /\ ~Refused(categories, req[1], req[2],
                             ObjectIdOf(req[2]) = BadObjectId, noSession,
                             onThrow, onReject, storedOnly))
  /\ \A req \in DeleteCatRequests :
       ~ENABLED (/\ RequireAuth(req[1], "", DeleteCategory(req[1], req[2]))
                 /\ ~Refused(categories, req[1], req[2],
                             ObjectIdOf(req[2]) = BadObjectId, noSession,
                             onThrow, onReject, storedOnly))

\* C15 as stated (owner-only update and delete): a PUT or DELETE on
\* /transaction/:id or /category/:id by an authenticated caller who does
\* not own the record with that id answers 404 and leaves every stored
\* record unchanged; by an unauthenticated caller it answers 401 and
\* leaves the store unchanged.  Stated of the requests whose id names a
\* stored record, which another caller owns.
C15_OwnerOnly == OwnerOnly(401, 404, 404, TRUE)

\* C15 as amended: the same, except that the answer is 500 when the id,
\* or the categoryId of a PUT /transaction body, is not the text of an
\* ObjectId, or when the store call of the request fails; the store is
\* unchanged in those cases too; and a request without a session is
\* answered by requireAuth() with a redirect (302), not by the handler
\* with 401, the store unchanged.  Stated of every request, whether or
\* not its id names a stored record.
C15_OwnerOnlyOrThrows == OwnerOnly(302, 500, 500, FALSE)

\* C15 witness: a 404 was sent while transaction 1 is stored as u1's and
\* category 1 as u2's, and the DELETE of that category by u1, who does not
\* own it, can be answered 404 with the store left as it is.
C15_Witness ==
  /\ res = Reply(404)
  /\ \E d \in transactions : d._id = 1 /\ d.userId = "u1"
  /\ \E c \in categories : c._id = 1 /\ c.userId = "u2"
  /\ ENABLED (/\ RequireAuth("u1", "", DeleteCategory("u1", HexId(1)))
              /\ Answered({404})
              /\ UNCHANGED storeVars)

\* The ids of the documents of a sequence.
IdsOf(docs) == {docs[i]._id : i \in 1..Len(docs)}

\* C16 (category ownership is immutable): a category with an owner enters
\* the store by a POST /category and its owner is that request's caller;
\* no step, a PUT /category/:id with any body included, changes the owner
\* of a stored category; and the response that a GET /category of a
\* caller reads from the store lists exactly the stored categories whose
\* owner is the caller.
C16_CatOwnershipImmutable ==
  [][/\ \A c \in categories : \A e \in categories' :
          e._id = c._id => e.userId = c.userId
     /\ \A e \in categories' :
          (\A c \in categories : c._id # e._id) =>
            \/ \E req \in PostCatRequests :
                 req[1] = e.userId /\ PostCategory(req[1], req[2])
            \/ e.userId = Null
     /\ \A r \in BagToSet(suspended') :
          (/\ suspended' = suspended (+) SetToBag({r})
           /\ r.route = "GET /category" /\ r.status = 200
           /\ r.userId \in Users) =>
            IdsOf(r.body) =
              {c._id : c \in {e \in categories : e.userId = r.userId}}]_vars

\* C17 (inflation cache): over any interleaving of GET /inflation
\* requests, a response marked cached: true carries the data of the most
\* recent successful fetch stored for its country, and it was sent at a
\* time earlier than that store's time plus 12 hours; and a fetch that
\* fails answers 500 and leaves the cache as it is.
C17_InflationCache ==
  /\ []((sent.status = 200 /\ sent.cached) =>
         /\ sent.country \in DOMAIN lastStored
         /\ sent.data = lastStored[sent.country].data
         /\ lastStored[sent.country].at + CACHE_TTL_MS > sent.at)
  /\ [][(\E p \in pending : FetchRejects(p)) =>
         (sent'.status = 500 /\ cache' = cache)]_vars

\* C17 witness: a cached response was sent some time after the entry was
\* stored, while another request for the same country still awaits its
\* fetch.
C17_Witness ==
  /\ sent.status = 200 /\ sent.cached
  /\ sent.country \in DOMAIN lastStored
  /\ sent.at > lastStored[sent.country].at
  /\ \E p \in pending : p.country = sent.country

=============================================================================
